---- MODULE Spec2Model ----
(***************************************************************************)
(* Segment extraction and media assembly of the media-search solution.    *)
(*                                                                         *)
(*   pkg/commands/segment_extractor.go  SegmentExtractor.Execute,          *)
(*                                       CreateJob, segmentWorker          *)
(*   unnamed/part_000                    MediaAssembly.Execute,            *)
(*                                       formatSeconds, correctTimestamp   *)
(*                                                                         *)
(* Go strings are modelled as sequences of one-character strings, so that  *)
(* strings.Split, strconv.Atoi, fmt.Sprintf("%02d") and time.Parse are     *)
(* computed character by character as the library computes them.           *)
(***************************************************************************)
EXTENDS Integers, Sequences, FiniteSets, TLC

VARIABLES
    (* inputs of one pipeline invocation *)
    numWindows,        \* len(summary.SegmentTimeStamps)
    numberOfWorkers,   \* SegmentExtractor.numberOfWorkers
    mediaLength,       \* context value of mediaLengthParam (seconds)
    outcome,           \* per window: what template rendering / inference yields
    (* SegmentExtractor.Execute: main goroutine *)
    mpc,               \* position of the main goroutine
    spawned,           \* workers started so far (loop variable w - 1)
    nextJob,           \* next window index to dispatch (loop variable i + 1)
    jobs,              \* buffered channel jobs (FIFO of window indices)
    jobsClosed,
    results,           \* buffered channel results (FIFO of SegmentResponse)
    resultsClosed,
    segmentData,       \* local slice of success payloads
    (* segmentWorker goroutines *)
    wpc,               \* per worker: "idle" (not started), "recv", "infer", "done"
    wjob,              \* per worker: window index being processed (0 = none)
    (* cor.Context and telemetry *)
    ctxErrors,         \* errors added with context.AddError, in order
    ctxSegments,       \* value under SegmentExtractor's output key
    ctxMedia,          \* value under MediaAssembly's media output key
    ctxOut,            \* value under cor.CtxOut
    counters,          \* success/error counters of the two commands
    span,              \* per window: state of the telemetry span
    panicked,          \* a goroutine panicked (send on a closed channel)
    (* history of the run, used only to state properties *)
    taken,             \* per window: how often a worker received the job
    called,            \* per window: how often the inference call was made
    outcomes,          \* per window: how many outcomes the job contributed
    sent,              \* every SegmentResponse sent on results, in order
    received,          \* every SegmentResponse read by the aggregation loop
    (* repeated assembly and direct calls of correctTimestamp *)
    media2,            \* result of running repair/sort/sequence a second time
    tsIn, tsOut, tsOut2, tsPc

vars == << numWindows, numberOfWorkers, mediaLength, outcome, mpc, spawned,
           nextJob, jobs, jobsClosed, results, resultsClosed, segmentData,
           wpc, wjob, ctxErrors, ctxSegments, ctxMedia, ctxOut, counters,
           span, panicked, taken, called, outcomes, sent, received,
           media2, tsIn, tsOut, tsOut2, tsPc >>

(***************************************************************************)
(* Bounds of the model.                                                    *)
(***************************************************************************)
MaxWindows == 3
MaxWorkers == 2
MaxSegments == 3
MaxParts == 4

(***************************************************************************)
(* Go strings as character sequences.                                      *)
(***************************************************************************)
DigitChars == <<"0", "1", "2", "3", "4", "5", "6", "7", "8", "9">>

isDigit(c) == \E d \in 1..10 : DigitChars[d] = c

digitValue(c) == (CHOOSE d \in 1..10 : DigitChars[d] = c) - 1

Colon == ":"

RECURSIVE IndexOf(_, _, _)
\* strings.Index: position of the first occurrence of character c at or
\* after position k, 0 when there is none.
IndexOf(s, c, k) ==
    IF k > Len(s) THEN 0
    ELSE IF s[k] = c THEN k
    ELSE IndexOf(s, c, k + 1)

RECURSIVE Split(_)
\* strings.Split(s, ":"): the empty string yields one empty part.
Split(s) ==
    LET k == IndexOf(s, Colon, 1)
    IN  IF k = 0 THEN << s >>
        ELSE << SubSeq(s, 1, k - 1) >> \o Split(SubSeq(s, k + 1, Len(s)))

RECURSIVE DigitsValue(_, _)
\* value of a run of decimal digits, accumulated left to right
DigitsValue(s, acc) ==
    IF s = << >> THEN acc
    ELSE DigitsValue(Tail(s), acc * 10 + digitValue(Head(s)))

AllDigits(s) == s # << >> /\ \A k \in 1..Len(s) : isDigit(s[k])

\* strconv.Atoi: optional sign, then one or more decimal digits.
Atoi(s) ==
    IF s # << >> /\ Head(s) \in {"-", "+"}
    THEN IF AllDigits(Tail(s))
         THEN [err |-> FALSE,
               val |-> IF Head(s) = "-" THEN 0 - DigitsValue(Tail(s), 0)
                       ELSE DigitsValue(Tail(s), 0)]
         ELSE [err |-> TRUE, val |-> 0]
    ELSE IF AllDigits(s)
         THEN [err |-> FALSE, val |-> DigitsValue(s, 0)]
         ELSE [err |-> TRUE, val |-> 0]

RECURSIVE Itoa(_)
\* decimal digits of a non-negative integer
Itoa(n) ==
    IF n < 10 THEN << DigitChars[n + 1] >>
    ELSE Itoa(n \div 10) \o << DigitChars[(n % 10) + 1] >>

\* fmt.Sprintf("%02d", n): zero padding to width 2, the sign counts.
Sprintf02d(n) ==
    IF n < 0 THEN << "-" >> \o Itoa(0 - n)
    ELSE IF n < 10 THEN << "0" >> \o Itoa(n)
    ELSE Itoa(n)

\* Go integer division and remainder truncate toward zero.
GoDiv(a, b) == IF a >= 0 THEN a \div b ELSE 0 - ((0 - a) \div b)
GoMod(a, b) == a - b * GoDiv(a, b)

formatSeconds(totalSeconds) ==
    LET hours == GoDiv(totalSeconds, 3600)
        minutes == GoDiv(GoMod(totalSeconds, 3600), 60)
        seconds == GoMod(totalSeconds, 60)
    IN  Sprintf02d(hours) \o << Colon >> \o Sprintf02d(minutes)
            \o << Colon >> \o Sprintf02d(seconds)

correctTimestamp_strict(timestampStr, videoLength) ==
    LET parts == Split(timestampStr)
    IN  IF Len(parts) # 3 THEN timestampStr
        ELSE
        LET h == Atoi(parts[1])
            m == Atoi(parts[2])
            s == Atoi(parts[3])
        IN  IF h.err \/ m.err \/ s.err THEN timestampStr
            ELSE IF h.val * 3600 + m.val * 60 + s.val < videoLength
                 THEN timestampStr
            ELSE IF h.val * 60 + m.val < videoLength
                 THEN << "0", "0", Colon >> \o Sprintf02d(h.val)
                          \o << Colon >> \o Sprintf02d(m.val)
            ELSE formatSeconds(videoLength)

correctTimestamp_noclamp(timestampStr, videoLength) ==
    LET parts == Split(timestampStr)
    IN  IF Len(parts) # 3 THEN timestampStr
        ELSE
        LET h == Atoi(parts[1])
            m == Atoi(parts[2])
            s == Atoi(parts[3])
        IN  IF h.err \/ m.err \/ s.err THEN timestampStr
            ELSE IF h.val * 3600 + m.val * 60 + s.val <= videoLength
                 THEN timestampStr
            ELSE IF h.val * 60 + m.val <= videoLength
                 THEN << "0", "0", Colon >> \o Sprintf02d(h.val)
                          \o << Colon >> \o Sprintf02d(m.val)
            ELSE timestampStr

correctTimestamp_shiftAlways(timestampStr, videoLength) ==
    LET parts == Split(timestampStr)
    IN  IF Len(parts) # 3 THEN timestampStr
        ELSE
        LET h == Atoi(parts[1])
            m == Atoi(parts[2])
            s == Atoi(parts[3])
        IN  IF h.err \/ m.err \/ s.err THEN timestampStr
            ELSE IF h.val * 3600 + m.val * 60 + s.val <= videoLength
                 THEN timestampStr
            ELSE << "0", "0", Colon >> \o Sprintf02d(h.val)
                     \o << Colon >> \o Sprintf02d(m.val)

correctTimestamp(timestampStr, videoLength) ==
    LET parts == Split(timestampStr)
    IN  IF Len(parts) # 3 THEN timestampStr
        ELSE
        LET h == Atoi(parts[1])
            m == Atoi(parts[2])
            s == Atoi(parts[3])
        IN  IF h.err \/ m.err \/ s.err THEN timestampStr
            ELSE
            LET originalSeconds == h.val * 3600 + m.val * 60 + s.val
                correctedSeconds == h.val * 60 + m.val
            IN  IF originalSeconds <= videoLength THEN timestampStr
                ELSE IF correctedSeconds <= videoLength
                     THEN << "0", "0", Colon >> \o Sprintf02d(h.val)
                              \o << Colon >> \o Sprintf02d(m.val)
                ELSE formatSeconds(videoLength)

(***************************************************************************)
(* time.Parse(DefaultMovieTimeFormat, value) with the layout "15:04:05":   *)
(* an hour of one or two digits below 24, then ":" and exactly two digits  *)
(* below 60, twice, and nothing after them.  (The input alphabet has no    *)
(* "." or ",", so the fractional-second extension never applies.)  The     *)
(* result is an instant counted in seconds from Jan 1 of year 0, the date  *)
(* time.Parse gives a layout without date; on any error the code ignores   *)
(* the error and uses the returned zero Time, Jan 1 of year 1, which lies  *)
(* 366 days after every parsed instant.                                    *)
(***************************************************************************)
ZeroTime == 366 * 86400

\* time.getnum: one or two leading digits; fixed demands exactly two.
getnum(s, fixed) ==
    IF ~(Len(s) >= 1 /\ isDigit(s[1]))
    THEN [err |-> TRUE, val |-> 0, rest |-> s]
    ELSE IF ~(Len(s) >= 2 /\ isDigit(s[2]))
         THEN IF fixed THEN [err |-> TRUE, val |-> 0, rest |-> s]
              ELSE [err |-> FALSE, val |-> digitValue(s[1]), rest |-> Tail(s)]
    ELSE [err |-> FALSE, val |-> digitValue(s[1]) * 10 + digitValue(s[2]),
          rest |-> Tail(Tail(s))]

hasColonPrefix(s) == Len(s) >= 1 /\ s[1] = Colon

timeParse(value) ==
    LET hour == getnum(value, FALSE)
    IN  IF hour.err \/ hour.val >= 24 \/ ~hasColonPrefix(hour.rest)
        THEN ZeroTime
        ELSE
        LET min == getnum(Tail(hour.rest), TRUE)
        IN  IF min.err \/ min.val >= 60 \/ ~hasColonPrefix(min.rest)
            THEN ZeroTime
            ELSE
            LET sec == getnum(Tail(min.rest), TRUE)
            IN  IF sec.err \/ sec.val >= 60 \/ sec.rest # << >>
                THEN ZeroTime
                ELSE hour.val * 3600 + min.val * 60 + sec.val

(***************************************************************************)
(* model.Segment and the steps of MediaAssembly.Execute.                   *)
(***************************************************************************)
Segment(sequenceNumber, start, end, script) ==
    [sequenceNumber |-> sequenceNumber, start |-> start, end |-> end,
     script |-> script]

\* The less function handed to sort.Slice.
lessByStart_orEqual(a, b) == timeParse(a.start) <= timeParse(b.start)

lessByStart(a, b) == timeParse(a.start) < timeParse(b.start)

swap(l, i, j) == [l EXCEPT ![i] = l[j], ![j] = l[i]]

RECURSIVE insertionStep(_, _)
\* inner loop of the insertion sort: for j > a && less(j, j-1) { swap }
insertionStep(l, j) ==
    IF j > 1 /\ lessByStart(l[j], l[j - 1])
    THEN insertionStep(swap(l, j, j - 1), j - 1)
    ELSE l

RECURSIVE insertionSort(_, _)
insertionSort(l, i) ==
    IF i > Len(l) THEN l
    ELSE insertionSort(insertionStep(l, i), i + 1)

\* The slice left in the order it arrived in.
sortSegments_none(segments) == segments

\* The insertion sort sort.Slice(segments, less) runs on slices of at most
\* maxInsertion elements; it leaves equal elements in their order.
sortSegments(segments) == insertionSort(segments, 2)

correctSegments(segments, mediaLengthInSeconds) ==
    [i \in 1..Len(segments) |->
        [segments[i] EXCEPT
            !.start = correctTimestamp(segments[i].start, mediaLengthInSeconds),
            !.end = correctTimestamp(segments[i].end, mediaLengthInSeconds)]]

sequenceSegments_keep(segments) == segments

\* for i, segment := range segments { segment.SequenceNumber = i }
sequenceSegments(segments) ==
    [i \in 1..Len(segments) |-> [segments[i] EXCEPT !.sequenceNumber = i - 1]]

\* lines 87-101: repair, sort, re-sequence
repairSortSequence(segments, mediaLengthInSeconds) ==
    sequenceSegments(sortSegments(
        correctSegments(segments, mediaLengthInSeconds)))

(***************************************************************************)
(* Inference payloads.  The text an inference call returns is one of       *)
(*   "blank"    only spaces, or nothing                                    *)
(*   "braces"   exactly {}                                                 *)
(*   "object"   a JSON object holding the fields of one segment            *)
(*   "garbage"  text that is not JSON                                      *)
(***************************************************************************)
EmptyString == << >>

ZeroSegment == Segment(0, EmptyString, EmptyString, "")

Payload(kind, seg) == [kind |-> kind, seg |-> seg]

BlankPayload == Payload("blank", ZeroSegment)
BracesPayload == Payload("braces", ZeroSegment)
GarbagePayload == Payload("garbage", ZeroSegment)

\* len(strings.Trim(out, " ")) > 0
trimmedNonEmpty(out) == out.kind # "blank"

keepsPayload_onlyTrim(out) == trimmedNonEmpty(out)

\* segmentWorker line 224: len(strings.Trim(out, " ")) > 0 && out != "{}"
keepsPayload(out) == trimmedNonEmpty(out) /\ out.kind # "braces"

jsonUnmarshal_lenient(jsonSegments) ==
    LET good == SelectSeq(jsonSegments,
                          LAMBDA p : p.kind \in {"object", "braces"})
    IN  [err |-> FALSE, segments |-> [i \in 1..Len(good) |-> good[i].seg]]

\* json.Unmarshal of "[ " + strings.Join(jsonSegments, ",") + " ]" into a
\* list of segments: an element that is not JSON (or is missing between two
\* commas) fails the whole document; {} decodes to a segment of zero values.
jsonUnmarshal(jsonSegments) ==
    IF \E i \in 1..Len(jsonSegments) :
           jsonSegments[i].kind \notin {"object", "braces"}
    THEN [err |-> TRUE, segments |-> << >>]
    ELSE [err |-> FALSE,
          segments |-> [i \in 1..Len(jsonSegments) |-> jsonSegments[i].seg]]

(***************************************************************************)
(* model.MediaSummary and model.Media: the fields the two commands use.    *)
(***************************************************************************)
SummaryText == "summary"
SummaryTitle == "title"

Media(segments, lengthInSeconds) ==
    [title |-> SummaryTitle, summary |-> SummaryText,
     lengthInSeconds |-> lengthInSeconds, segments |-> segments]

defaultSegment(mediaLengthInSeconds) ==
    Segment(0, << "0", "0", Colon, "0", "0", Colon, "0", "0" >>,
            formatSeconds(mediaLengthInSeconds), SummaryText)

\* lines 77-85: the default segment when nothing was extracted
withDefault(segments, mediaLengthInSeconds) ==
    IF Len(segments) = 0 THEN << defaultSegment(mediaLengthInSeconds) >>
    ELSE segments

\* lines 77-116 of MediaAssembly.Execute on a parsed list
assemble(segments, mediaLengthInSeconds) ==
    Media(repairSortSequence(withDefault(segments, mediaLengthInSeconds),
                             mediaLengthInSeconds),
          mediaLengthInSeconds)

\* sort.Slice switches from its insertion sort to a quicksort above this
\* many elements.
maxInsertion == 12

RemoveAt(l, i) == SubSeq(l, 1, i - 1) \o SubSeq(l, i + 1, Len(l))

RECURSIVE Orders(_)
\* every arrangement of the elements of l
Orders(l) ==
    IF Len(l) <= 1 THEN { l }
    ELSE UNION { { << l[i] >> \o r : r \in Orders(RemoveAt(l, i)) } :
                 i \in 1..Len(l) }

\* length of the run of elements at the head of the sorted list l that
\* less does not tell apart
tieRun(l) ==
    1 + Cardinality({ k \in 2..Len(l) :
                        \A m \in 2..k : ~lessByStart(l[1], l[m]) })

RECURSIVE tieOrders(_)
\* the sorted list l with the elements of each run of equals in any order
tieOrders(l) ==
    IF l = << >> THEN { << >> }
    ELSE { r \o t : r \in Orders(SubSeq(l, 1, tieRun(l))),
                    t \in tieOrders(SubSeq(l, tieRun(l) + 1, Len(l))) }

\* line 93: the results sort.Slice may leave in the slice.  sort.Slice is
\* "not guaranteed to be stable: equal elements may be reversed from their
\* original order"; up to maxInsertion elements it is the insertion sort
\* above, beyond that the order among equals is left to its quicksort.
sortSlice(segments) ==
    IF Len(segments) <= maxInsertion THEN { sortSegments(segments) }
    ELSE tieOrders(sortSegments(segments))

\* lines 77-116: the Media values MediaAssembly.Execute may build
assembleOutcomes(segments, mediaLengthInSeconds) ==
    IF Len(segments) <= maxInsertion
    THEN { assemble(segments, mediaLengthInSeconds) }
    ELSE { Media(sequenceSegments(sorted), mediaLengthInSeconds) :
             sorted \in sortSlice(correctSegments(segments,
                                                  mediaLengthInSeconds)) }

(***************************************************************************)
(* Context values.                                                         *)
(***************************************************************************)
Unset == [tag |-> "unset", segs |-> << >>, media |-> << >>]
SegmentsValue(l) == [tag |-> "segments", segs |-> l, media |-> << >>]
MediaValue(m) == [tag |-> "media", segs |-> << >>, media |-> << m >>]

ExtractorName == "segment-extractor"
AssemblyName == "media-assembly"

ZeroCounters ==
    [extractorSuccess |-> 0, extractorError |-> 0,
     assemblySuccess |-> 0, assemblyError |-> 0]

(***************************************************************************)
(* Inputs of a pipeline run.  Window i of the summary is minute i of the   *)
(* media; what rendering and inference yield for it is fixed by outcome[i]:*)
(*   "renderErr"  the prompt template fails to render (CreateJob)          *)
(*   "inferErr"   GenerateMultiModalResponse returns an error              *)
(*   "blank", "braces", "object", "garbage"  the kind of text it returns   *)
(***************************************************************************)
OutcomeKinds == {"renderErr", "inferErr", "blank", "braces", "object", "garbage"}

PipelineLengths == {45, 120}

ScriptNames == << "A", "B", "C", "D", "E", "F" >>

windowStart(i) == formatSeconds((i - 1) * 60)
windowEnd(i) == formatSeconds(i * 60)

\* The segment a successful inference call describes for window i; the
\* sequence number it carries is whatever the model wrote.
windowSegment(i) ==
    Segment(numWindows - i, windowStart(i), windowEnd(i), ScriptNames[i])

inferenceOutput(i) ==
    IF outcome[i] = "object" THEN Payload("object", windowSegment(i))
    ELSE IF outcome[i] = "braces" THEN BracesPayload
    ELSE IF outcome[i] = "garbage" THEN GarbagePayload
    ELSE BlankPayload

SegmentResponse(value, err, job) == [value |-> value, err |-> err, job |-> job]

NoError == ""

Workers == 1..numberOfWorkers
Windows == 1..numWindows

InitCommon ==
    /\ spawned = 0
    /\ nextJob = 1
    /\ jobs = << >>
    /\ jobsClosed = FALSE
    /\ results = << >>
    /\ resultsClosed = FALSE
    /\ segmentData = << >>
    /\ wpc = [w \in Workers |-> "idle"]
    /\ wjob = [w \in Workers |-> 0]
    /\ ctxErrors = << >>
    /\ ctxMedia = << >>
    /\ counters = ZeroCounters
    /\ span = [i \in Windows |-> "none"]
    /\ panicked = FALSE
    /\ taken = [i \in Windows |-> 0]
    /\ called = [i \in Windows |-> 0]
    /\ outcomes = [i \in Windows |-> 0]
    /\ sent = << >>
    /\ received = << >>
    /\ media2 = << >>

InitTimestampUnused ==
    /\ tsIn = EmptyString
    /\ tsOut = EmptyString
    /\ tsOut2 = EmptyString
    /\ tsPc = "unused"

Init ==
    /\ numWindows \in 0..MaxWindows
    /\ numberOfWorkers \in 0..MaxWorkers
    /\ mediaLength \in PipelineLengths
    /\ outcome \in [1..numWindows -> OutcomeKinds]
    /\ mpc = "spawn"
    /\ ctxSegments = Unset
    /\ ctxOut = Unset
    /\ InitCommon
    /\ InitTimestampUnused

(***************************************************************************)
(* SegmentExtractor.Execute, main goroutine.                               *)
(***************************************************************************)
mainVars == << mpc, spawned, nextJob, jobsClosed, resultsClosed, segmentData >>
inputVars == << numWindows, numberOfWorkers, mediaLength, outcome >>
ctxVars == << ctxErrors, ctxSegments, ctxMedia, ctxOut, counters >>
tsVars == << tsIn, tsOut, tsOut2, tsPc >>

\* line 99: jobs := make(chan *SegmentJob, len(summary.SegmentTimeStamps))
jobsCapacity == numWindows

\* A result queue with one slot per worker instead of one per job.
resultsCapacity_perWorker == numberOfWorkers

\* line 100: results := make(chan *SegmentResponse,
\* len(summary.SegmentTimeStamps))
resultsCapacity == numWindows

\* lines 104-107: wg.Add(1); go segmentWorker(jobs, results, &wg)
ExecuteSpawnWorker ==
    /\ mpc = "spawn" /\ ~panicked
    /\ spawned < numberOfWorkers
    /\ spawned' = spawned + 1
    /\ wpc' = [wpc EXCEPT ![spawned + 1] = "recv"]
    /\ UNCHANGED << inputVars, ctxVars, tsVars, mpc, nextJob, jobs, jobsClosed,
                    results, resultsClosed, segmentData, wjob, span, panicked,
                    taken, outcomes, sent, received, media2,
                    called >>

\* lines 110-113 with CreateJob (lines 162-211): the span is started before
\* the template is rendered; the job is sent whether or not rendering failed.
\* The send blocks while the channel is full.
ExecuteDispatchJob ==
    /\ mpc = "spawn" /\ ~panicked
    /\ spawned = numberOfWorkers
    /\ nextJob <= numWindows
    /\ Len(jobs) < jobsCapacity
    /\ span' = [span EXCEPT ![nextJob] = "started"]
    /\ jobs' = Append(jobs, nextJob)
    /\ nextJob' = nextJob + 1
    /\ UNCHANGED << inputVars, ctxVars, tsVars, mpc, spawned, jobsClosed,
                    results, resultsClosed, segmentData, wpc, wjob, panicked,
                    taken, outcomes, sent, received, media2,
                    called >>

\* line 115: close(jobs)
ExecuteCloseJobs ==
    /\ mpc = "spawn" /\ ~panicked
    /\ spawned = numberOfWorkers
    /\ nextJob > numWindows
    /\ jobsClosed' = TRUE
    /\ mpc' = "wait"
    /\ UNCHANGED << inputVars, ctxVars, tsVars, spawned, nextJob, jobs,
                    results, resultsClosed, segmentData, wpc, wjob, span,
                    panicked, taken, outcomes, sent, received, media2,
                    called >>

allWorkersDone_nowait == TRUE

\* the WaitGroup counter is zero: every started worker ran wg.Done()
allWorkersDone == \A w \in Workers : wpc[w] = "done"

\* line 116: wg.Wait() returns
ExecuteWait ==
    /\ mpc = "wait" /\ ~panicked
    /\ allWorkersDone
    /\ mpc' = "close"
    /\ UNCHANGED << inputVars, ctxVars, tsVars, spawned, nextJob, jobs,
                    jobsClosed, results, resultsClosed, segmentData, wpc, wjob,
                    span, panicked, taken, outcomes, sent, received, media2,
                    called >>

\* line 117: close(results)
ExecuteCloseResults ==
    /\ mpc = "close" /\ ~panicked
    /\ resultsClosed' = TRUE
    /\ mpc' = "aggregate"
    /\ UNCHANGED << inputVars, ctxVars, tsVars, spawned, nextJob, jobs,
                    jobsClosed, results, segmentData, wpc, wjob, span,
                    panicked, taken, outcomes, sent, received, media2,
                    called >>

\* lines 121-129: one iteration of for r := range results
ExecuteAggregate ==
    /\ mpc = "aggregate" /\ ~panicked
    /\ results # << >>
    /\ LET r == Head(results)
       IN  /\ results' = Tail(results)
           /\ received' = Append(received, r)
           /\ IF r.err # NoError
              THEN /\ counters' = [counters EXCEPT
                                      !.extractorError = @ + 1]
                   /\ ctxErrors' = Append(ctxErrors,
                                          [stage |-> ExtractorName, err |-> r.err])
                   /\ UNCHANGED segmentData
              ELSE /\ segmentData' = Append(segmentData, r.value)
                   /\ UNCHANGED << counters, ctxErrors >>
    /\ UNCHANGED << inputVars, tsVars, mpc, spawned, nextJob, jobs, jobsClosed,
                    resultsClosed, ctxSegments, ctxMedia, ctxOut, wpc, wjob,
                    span, panicked, taken, outcomes, sent, media2,
                    called >>

\* A context that is never found to hold an error.
hasErrors_never == FALSE

\* line 131: context.HasErrors(), true when any error was added to the
\* context
hasErrors == ctxErrors # << >>

\* lines 131-136: the range loop ends on the closed, drained channel
ExecuteFinish ==
    /\ mpc = "aggregate" /\ ~panicked
    /\ results = << >> /\ resultsClosed
    /\ counters' = IF ~hasErrors
                   THEN [counters EXCEPT !.extractorSuccess = @ + 1]
                   ELSE counters
    /\ ctxSegments' = SegmentsValue(segmentData)
    /\ ctxOut' = SegmentsValue(segmentData)
    /\ mpc' = "assemble"
    /\ UNCHANGED << inputVars, tsVars, spawned, nextJob, jobs, jobsClosed,
                    results, resultsClosed, segmentData, ctxErrors, ctxMedia,
                    wpc, wjob, span, panicked, taken, outcomes, sent, received,
                    media2,
                    called >>

(***************************************************************************)
(* segmentWorker(jobs, results, wg), one goroutine per worker.             *)
(***************************************************************************)
\* line 216: for j := range jobs, a job is available
segmentWorkerReceive(w) ==
    /\ wpc[w] = "recv" /\ ~panicked
    /\ jobs # << >>
    /\ jobs' = Tail(jobs)
    /\ wjob' = [wjob EXCEPT ![w] = Head(jobs)]
    /\ wpc' = [wpc EXCEPT ![w] = "work"]
    /\ taken' = [taken EXCEPT ![Head(jobs)] = @ + 1]
    /\ UNCHANGED << inputVars, mainVars, ctxVars, tsVars, results, span,
                    panicked, outcomes, sent, received, media2,
                    called >>

\* line 216 and the deferred wg.Done(): the channel is closed and drained
segmentWorkerExit(w) ==
    /\ wpc[w] = "recv" /\ ~panicked
    /\ jobs = << >> /\ jobsClosed
    /\ wpc' = [wpc EXCEPT ![w] = "done"]
    /\ UNCHANGED << inputVars, mainVars, ctxVars, tsVars, jobs, results, wjob,
                    span, panicked, taken, outcomes, sent, received, media2,
                    called >>

\* results <- r: a send on a closed channel panics; the callers wait while
\* the open channel is full.
sendResult(r) ==
    IF resultsClosed
    THEN /\ panicked' = TRUE
         /\ UNCHANGED << results, sent >>
    ELSE /\ results' = Append(results, r)
         /\ sent' = Append(sent, r)
         /\ UNCHANGED panicked

\* The worker's position after the branch for an inference error: a loop
\* that went on would be back at the channel.
afterInferenceError_continue == "recv"

\* lines 219-222: after sending the failure the worker returns, so the
\* deferred wg.Done() runs and the goroutine is gone.
afterInferenceError == "done"

\* lines 217-230: the body of the loop for the job the worker holds.  The
\* inference call returns here; the worker then reports and either goes
\* back to the channel or, after an inference error, returns (line 222).
segmentWorkerProcess(w) ==
    /\ wpc[w] = "work" /\ ~panicked
    /\ LET j == wjob[w]
           out == inferenceOutput(j)
       IN  /\ outcomes' = [outcomes EXCEPT ![j] = @ + 1]
           /\ called' = IF outcome[j] = "renderErr"
                        THEN called
                        ELSE [called EXCEPT ![j] = @ + 1]
           /\ IF outcome[j] = "renderErr"
              THEN /\ Len(results) < resultsCapacity \/ resultsClosed
                   /\ sendResult(SegmentResponse(BlankPayload, "render", j))
                   /\ wpc' = [wpc EXCEPT ![w] = "recv"]
                   /\ UNCHANGED span
              ELSE IF outcome[j] = "inferErr"
              THEN /\ Len(results) < resultsCapacity \/ resultsClosed
                   /\ span' = [span EXCEPT ![j] = "error"]
                   /\ sendResult(SegmentResponse(BlankPayload, "infer", j))
                   /\ wpc' = [wpc EXCEPT ![w] = afterInferenceError]
              ELSE /\ IF keepsPayload(out)
                      THEN /\ Len(results) < resultsCapacity \/ resultsClosed
                           /\ sendResult(SegmentResponse(out, NoError, j))
                      ELSE UNCHANGED << results, sent, panicked >>
                   /\ span' = [span EXCEPT ![j] = "ok"]
                   /\ wpc' = [wpc EXCEPT ![w] = "recv"]
    /\ wjob' = [wjob EXCEPT ![w] = 0]
    /\ UNCHANGED << inputVars, mainVars, ctxVars, tsVars, jobs, taken,
                    received, media2 >>

(***************************************************************************)
(* MediaAssembly.Execute.  The command is executable once the segment      *)
(* parameter is in the context (IsExecutable, lines 57-61).                *)
(***************************************************************************)
MediaAssemblyExecute ==
    /\ mpc = "assemble" /\ ~panicked
    /\ ctxSegments.tag = "segments"
    /\ LET parsed == jsonUnmarshal(ctxSegments.segs)
       IN  IF parsed.err
           THEN /\ counters' = [counters EXCEPT !.assemblyError = @ + 1]
                /\ ctxErrors' = Append(ctxErrors,
                                       [stage |-> AssemblyName, err |-> "parse"])
                /\ UNCHANGED << ctxMedia, ctxOut >>
           ELSE /\ counters' = [counters EXCEPT !.assemblySuccess = @ + 1]
                /\ \E media \in assembleOutcomes(parsed.segments, mediaLength) :
                      /\ ctxMedia' = << media >>
                      /\ ctxOut' = MediaValue(media)
                /\ UNCHANGED ctxErrors
    /\ mpc' = "done"
    /\ UNCHANGED << inputVars, tsVars, spawned, nextJob, jobs, jobsClosed,
                    results, resultsClosed, segmentData, ctxSegments, wpc,
                    wjob, span, panicked, taken, outcomes, sent, received,
                    media2,
                    called >>

Next ==
    \/ ExecuteSpawnWorker
    \/ ExecuteDispatchJob
    \/ ExecuteCloseJobs
    \/ ExecuteWait
    \/ ExecuteCloseResults
    \/ ExecuteAggregate
    \/ ExecuteFinish
    \/ \E w \in Workers : segmentWorkerReceive(w)
    \/ \E w \in Workers : segmentWorkerExit(w)
    \/ \E w \in Workers : segmentWorkerProcess(w)
    \/ MediaAssemblyExecute

Spec == Init /\ [][Next]_vars

(***************************************************************************)
(* The pipeline under the scheduling Go gives it: the main goroutine and   *)
(* every worker goroutine run on whenever they have a step they can take   *)
(* (a goroutine that is not blocked is scheduled), and every inference     *)
(* call returns.  What a job does to the queues and to its worker is one   *)
(* of four things: a failure result from rendering, a failure result from  *)
(* inference after which the worker returns, a success result, or no       *)
(* result; one outcome of each kind and one media length are drawn.        *)
(***************************************************************************)
QueueOutcomeKinds == {"renderErr", "inferErr", "blank", "object"}

InitFair ==
    /\ Init
    /\ \A i \in Windows : outcome[i] \in QueueOutcomeKinds
    /\ \A l \in PipelineLengths : mediaLength <= l

MainStep ==
    \/ ExecuteSpawnWorker
    \/ ExecuteDispatchJob
    \/ ExecuteCloseJobs
    \/ ExecuteWait
    \/ ExecuteCloseResults
    \/ ExecuteAggregate
    \/ ExecuteFinish
    \/ MediaAssemblyExecute

WorkerStep(w) ==
    /\ w \in Workers
    /\ \/ segmentWorkerReceive(w)
       \/ segmentWorkerExit(w)
       \/ segmentWorkerProcess(w)

SpecFair ==
    /\ InitFair
    /\ [][Next]_vars
    /\ WF_vars(MainStep)
    /\ \A w \in 1..MaxWorkers : WF_vars(WorkerStep(w))

(***************************************************************************)
(* MediaAssembly.Execute on its own: the context already holds a payload   *)
(* list, as SegmentExtractor.Execute leaves it, drawn from payloads whose  *)
(* timestamps and sequence numbers are whatever inference wrote.           *)
(***************************************************************************)
T00 == << "0", "0" >>
T01 == << "0", "1" >>
T10 == << "1", "0" >>
T24 == << "2", "4" >>
T25 == << "2", "5" >>
T30 == << "3", "0" >>
T45 == << "4", "5" >>
T50 == << "5", "0" >>
T55 == << "5", "5" >>
T70 == << "7", "0" >>
T99 == << "9", "9" >>
TMinus1 == << "-", "1" >>
T5 == << "5" >>
TBad == << "b", "a", "d" >>
TValue == << "v", "a", "l", "u", "e" >>
TX == << "x" >>

RECURSIVE Join(_)
\* strings.Join(parts, ":")
Join(parts) ==
    IF Len(parts) = 1 THEN parts[1]
    ELSE parts[1] \o << Colon >> \o Join(Tail(parts))

HMS(h, m, s) == Join(<< h, m, s >>)

AssemblyLengths == {3600, 90000}

AssemblyPayloads ==
    { Payload("object", Segment(5, HMS(T00, T55, T00), HMS(T00, T55, T30), "a")),
      Payload("object", Segment(5, HMS(T00, T10, T00), HMS(T99, T99, T99), "b")),
      Payload("object", Segment(0, HMS(T00, T10, T00), HMS(T00, T10, T30), "c")),
      Payload("object", Segment(-1, HMS(T45, T30, T00), HMS(T50, T70, T00), "d")),
      Payload("object", Segment(2, HMS(T50, T70, T00), HMS(T00, T55, T00), "e")),
      Payload("object", Segment(0, HMS(T99, T99, T99), HMS(T99, T99, T99), "f")),
      Payload("object", Segment(1, HMS(T25, T00, T00), HMS(T25, T00, T00), "g")),
      Payload("object", Segment(7, HMS(T24, T00, T00), HMS(T24, T00, T30), "h")),
      Payload("object", Segment(3, HMS(TBad, TValue, TX), Join(<< T10, T00 >>), "i")),
      Payload("object", Segment(0, HMS(TMinus1, T00, T00), HMS(T00, T00, T5), "j")),
      BracesPayload,
      GarbagePayload }

PayloadLists ==
    UNION { [1..n -> AssemblyPayloads] : n \in 0..MaxSegments }

InitAssembly ==
    /\ numWindows = 0
    /\ numberOfWorkers = 0
    /\ mediaLength \in AssemblyLengths
    /\ outcome = << >>
    /\ mpc = "assemble"
    /\ \E l \in PayloadLists :
          /\ ctxSegments = SegmentsValue(l)
          /\ ctxOut = SegmentsValue(l)
    /\ InitCommon
    /\ InitTimestampUnused

\* The repair, sort and re-sequence steps (lines 87-101) run once more on
\* the segment list of the assembled Media.
AssembleAgain ==
    /\ mpc = "done" /\ ctxMedia # << >> /\ media2 = << >>
    /\ media2' = << Media(repairSortSequence(ctxMedia[1].segments, mediaLength),
                          mediaLength) >>
    /\ UNCHANGED << inputVars, mainVars, ctxVars, tsVars, jobs, results, wpc,
                    wjob, span, panicked, taken, outcomes, sent, received,
                    called >>

NextAssembly == MediaAssemblyExecute \/ AssembleAgain

SpecAssembly == InitAssembly /\ [][NextAssembly]_vars

(***************************************************************************)
(* MediaAssembly.Execute on payload lists one longer than sort.Slice's     *)
(* insertion sort takes: thirteen segments a..m whose starts are whole     *)
(* minutes, two of them made equal or unparsable.                          *)
(***************************************************************************)
LongLen == maxInsertion + 1

LongScripts ==
    << "a", "b", "c", "d", "e", "f", "g", "h", "i", "j", "k", "l", "m" >>

LongBases ==
    { [k \in 1..LongLen |-> k],
      [k \in 1..LongLen |-> LongLen - k],
      << 1, 2, 7, 3, 4, 5, 6, 8, 9, 10, 11, 12, 0 >> }

MinuteStart(m) == HMS(T00, Sprintf02d(m), T00)

LongStarts(base, p, q, mode) ==
    [k \in 1..LongLen |->
        IF mode = "bad" /\ k \in {p, q} THEN HMS(TBad, TValue, TX)
        ELSE IF mode = "same" /\ k = q THEN MinuteStart(base[p])
        ELSE MinuteStart(base[k])]

LongPayloads(starts) ==
    [k \in 1..LongLen |->
        Payload("object", Segment(k, starts[k], starts[k], LongScripts[k]))]

LongPayloadLists ==
    { LongPayloads(LongStarts(base, p, q, mode)) :
        base \in LongBases, p \in 1..LongLen, q \in 1..LongLen,
        mode \in {"same", "bad"} }

InitLongAssembly ==
    /\ numWindows = 0
    /\ numberOfWorkers = 0
    /\ mediaLength \in AssemblyLengths
    /\ outcome = << >>
    /\ mpc = "assemble"
    /\ \E l \in LongPayloadLists :
          /\ ctxSegments = SegmentsValue(l)
          /\ ctxOut = SegmentsValue(l)
    /\ InitCommon
    /\ InitTimestampUnused

NextLongAssembly == MediaAssemblyExecute

SpecLongAssembly == InitLongAssembly /\ [][NextLongAssembly]_vars

(***************************************************************************)
(* correctTimestamp on its own, over strings of up to MaxParts parts.      *)
(***************************************************************************)
TimestampTokens == { T00, T45, T30, T99, TMinus1, T5, TBad }

TimestampLengths == {0, 100, 3600, 90000}

ExampleTimestamps ==
    { HMS(T00, T45, T00), HMS(T45, T30, T00), HMS(T99, T99, T99),
      HMS(TBad, TValue, TX), HMS(T01, T00, T00), EmptyString }

TimestampInputs ==
    { Join(p) : p \in UNION { [1..n -> TimestampTokens] : n \in 1..MaxParts } }
        \cup ExampleTimestamps

InitTimestamp ==
    /\ numWindows = 0
    /\ numberOfWorkers = 0
    /\ mediaLength \in TimestampLengths
    /\ outcome = << >>
    /\ mpc = "unused"
    /\ ctxSegments = Unset
    /\ ctxOut = Unset
    /\ InitCommon
    /\ tsIn \in TimestampInputs
    /\ tsOut = EmptyString
    /\ tsOut2 = EmptyString
    /\ tsPc = "call"

CallCorrectTimestamp ==
    /\ tsPc = "call"
    /\ tsOut' = correctTimestamp(tsIn, mediaLength)
    /\ tsPc' = "returned"
    /\ UNCHANGED << inputVars, mainVars, ctxVars, tsIn, tsOut2, jobs, results,
                    wpc, wjob, span, panicked, taken, outcomes, sent,
                    received, media2, called >>

\* correctTimestamp applied to its own result, as a second run of the loop
\* at lines 88-91 over the stored segments would
CallCorrectTimestampAgain ==
    /\ tsPc = "returned"
    /\ tsOut2' = correctTimestamp(tsOut, mediaLength)
    /\ tsPc' = "repaired"
    /\ UNCHANGED << inputVars, mainVars, ctxVars, tsIn, tsOut, jobs, results,
                    wpc, wjob, span, panicked, taken, outcomes, sent,
                    received, media2, called >>

NextTimestamp == CallCorrectTimestamp \/ CallCorrectTimestampAgain

SpecTimestamp == InitTimestamp /\ [][NextTimestamp]_vars

(***************************************************************************)
(* Vocabulary of the properties.                                           *)
(***************************************************************************)
\* ts has exactly three ":"-separated parts, each an integer
ThreeIntegers(ts) ==
    /\ Len(Split(ts)) = 3
    /\ \A k \in 1..3 : ~Atoi(Split(ts)[k]).err

ComponentValue(ts, k) == Atoi(Split(ts)[k]).val

\* H*3600 + M*60 + S of a string of three integers
HmsSeconds(ts) ==
    ComponentValue(ts, 1) * 3600 + ComponentValue(ts, 2) * 60
        + ComponentValue(ts, 3)

PastBarrier == mpc \in {"close", "aggregate", "assemble", "done"}
ExtractorReturned == mpc \in {"assemble", "done"}

WindowsWith(kinds) == { i \in Windows : outcome[i] \in kinds }

ExtractorErrors == SelectSeq(ctxErrors, LAMBDA e : e.stage = ExtractorName)
AssemblyErrors == SelectSeq(ctxErrors, LAMBDA e : e.stage = AssemblyName)

Range(f) == { f[x] : x \in DOMAIN f }

MediaSegments == ctxMedia[1].segments

(***************************************************************************)
(* C1  Dispatch completeness: once SegmentExtractor.Execute is past its    *)
(* barrier (wg.Wait), with at least one worker, every one of the           *)
(* numWindows jobs has been received by exactly one worker and has         *)
(* contributed exactly one outcome (success result, failure result or      *)
(* dropped empty success), and no job is left in the job queue.            *)
(***************************************************************************)
C1_DispatchCompleteness ==
    (PastBarrier /\ numberOfWorkers >= 1) =>
        /\ jobs = << >>
        /\ \A i \in Windows : taken[i] = 1 /\ outcomes[i] = 1

(***************************************************************************)
(* C2  Partial-failure tolerance: with at least one worker, when inference *)
(* fails for k windows and returns a segment object for the other N-k >= 1 *)
(* windows, then after SegmentExtractor.Execute exactly k errors are in    *)
(* the context, the error counter is k, the payload list holds exactly the *)
(* N-k successful payloads, and the assembled timeline consists of those   *)
(* N-k segments (no fallback segment).                                     *)
(***************************************************************************)
C2_PartialFailureTolerance ==
    LET failed == WindowsWith({"inferErr"})
        succeeded == WindowsWith({"object"})
    IN  ( /\ numberOfWorkers >= 1
          /\ failed \cup succeeded = Windows
          /\ succeeded # {} ) =>
            /\ ExtractorReturned =>
                  /\ Len(ExtractorErrors) = Cardinality(failed)
                  /\ counters.extractorError = Cardinality(failed)
                  /\ Len(ctxSegments.segs) = Cardinality(succeeded)
                  /\ Range(ctxSegments.segs) =
                        { Payload("object", windowSegment(i)) : i \in succeeded }
            /\ mpc = "done" =>
                  /\ Len(ctxMedia) = 1
                  /\ Len(MediaSegments) = Cardinality(succeeded)
                  /\ { seg.script : seg \in Range(MediaSegments) } =
                        { ScriptNames[i] : i \in succeeded }

(***************************************************************************)
(* C3  Fallback guarantee: when every job fails, or every job succeeds     *)
(* with an empty or {} payload (also with no window at all), the payload   *)
(* list handed to MediaAssembly.Execute is empty and the Media has exactly *)
(* one segment: sequence number 0, start 00:00:00, end the media length as *)
(* HH:MM:SS, script the summary text.  Every assembled Media has at least  *)
(* one segment.                                                            *)
(***************************************************************************)
AllJobsFail == WindowsWith({"renderErr", "inferErr"}) = Windows
AllJobsEmpty == WindowsWith({"blank", "braces"}) = Windows

C3_FallbackGuarantee ==
    /\ (ExtractorReturned /\ (AllJobsFail \/ AllJobsEmpty)) =>
          ctxSegments = SegmentsValue(<< >>)
    /\ (mpc = "done" /\ (AllJobsFail \/ AllJobsEmpty)) =>
          /\ Len(ctxMedia) = 1
          /\ Len(MediaSegments) = 1
          /\ MediaSegments[1].sequenceNumber = 0
          /\ MediaSegments[1].start = HMS(T00, T00, T00)
          /\ MediaSegments[1].end = formatSeconds(mediaLength)
          /\ HmsSeconds(MediaSegments[1].end) = mediaLength
          /\ MediaSegments[1].script = SummaryText
    /\ ctxMedia # << >> => Len(MediaSegments) >= 1

C3_Witness ==
    /\ mpc = "done"
    /\ numberOfWorkers >= 1
    /\ numWindows >= 2
    /\ \E i \in Windows : outcome[i] = "braces"
    /\ AllJobsEmpty
    /\ Len(ctxMedia) = 1

(***************************************************************************)
(* C4  Ordering invariant: in the Media produced by MediaAssembly.Execute  *)
(* the segments are in ascending start order, the starts compared by the   *)
(* H*3600+M*60+S parse of timestamp repair: for adjacent segments whose    *)
(* starts both have that form, the first start is <= the second.           *)
(***************************************************************************)
C4_OrderingInvariant ==
    ctxMedia # << >> =>
        \A i \in 1..(Len(MediaSegments) - 1) :
            ( /\ ThreeIntegers(MediaSegments[i].start)
              /\ ThreeIntegers(MediaSegments[i + 1].start) ) =>
                HmsSeconds(MediaSegments[i].start)
                    <= HmsSeconds(MediaSegments[i + 1].start)

(***************************************************************************)
(* C5  Dense re-sequencing: after every successful MediaAssembly.Execute   *)
(* the Media has n >= 1 segments and segment i (counted from 0) carries    *)
(* sequence number i, whatever sequence numbers the payloads carried.      *)
(***************************************************************************)
C5_DenseResequencing ==
    ctxMedia # << >> =>
        /\ Len(MediaSegments) >= 1
        /\ \A i \in 1..Len(MediaSegments) :
              MediaSegments[i].sequenceNumber = i - 1
        /\ { seg.sequenceNumber : seg \in Range(MediaSegments) }
              = 0..(Len(MediaSegments) - 1)

C5_Witness ==
    /\ mpc = "done"
    /\ Len(ctxMedia) = 1
    /\ Len(MediaSegments) = 3
    /\ \E i, j \in 1..3 :
          /\ i # j
          /\ ctxSegments.segs[i].seg.sequenceNumber
                = ctxSegments.segs[j].seg.sequenceNumber
    /\ \E k \in 1..3 : ctxSegments.segs[k].seg.sequenceNumber < 0

(***************************************************************************)
(* C6  Timestamp bounds: for a media length L >= 0 and a timestamp of      *)
(* exactly three integer components (negative ones and ones above 59       *)
(* included), the value correctTimestamp writes into the timeline has      *)
(* 0 <= H*3600 + M*60 + S <= L.                                            *)
(***************************************************************************)
C6_TimestampBounds ==
    (tsPc = "returned" /\ ThreeIntegers(tsIn)) =>
        /\ ThreeIntegers(tsOut)
        /\ 0 <= HmsSeconds(tsOut)
        /\ HmsSeconds(tsOut) <= mediaLength

(***************************************************************************)
(* C6 as amended: for a media length L >= 0 and a timestamp of exactly     *)
(* three integer components, the value correctTimestamp writes is again    *)
(* three integers with H*3600 + M*60 + S <= L; it is >= 0 as well when     *)
(* none of the three components of the input is negative.                  *)
(***************************************************************************)
C6_TimestampBoundsAmended ==
    (tsPc = "returned" /\ ThreeIntegers(tsIn)) =>
        /\ ThreeIntegers(tsOut)
        /\ HmsSeconds(tsOut) <= mediaLength
        /\ (\A k \in 1..3 : ComponentValue(tsIn, k) >= 0) =>
              0 <= HmsSeconds(tsOut)

C6_Witness ==
    /\ tsPc = "returned"
    /\ mediaLength = 3600
    /\ tsIn = HMS(T99, T99, T99)
    /\ tsOut = HMS(T01, T00, T00)
    /\ HmsSeconds(tsIn) > mediaLength

(***************************************************************************)
(* C7  Timestamp repair correctness: correctTimestamp(ts, L) is ts when ts *)
(* is not three integers; ts when H*3600+M*60+S <= L; otherwise 00:HH:MM   *)
(* (two-digit H and M) when H*60+M <= L; otherwise L as HH:MM:SS.  With    *)
(* L = 3600: 00:45:00 stays, 45:30:00 becomes 00:45:30, 99:99:99 becomes   *)
(* 01:00:00, bad:value:x stays.                                            *)
(***************************************************************************)
TwoDigits(n) ==
    IF n >= 0 /\ n < 100
    THEN << DigitChars[(n \div 10) + 1], DigitChars[(n % 10) + 1] >>
    ELSE Sprintf02d(n)

ReferenceRepair(ts, length) ==
    IF ~ThreeIntegers(ts) THEN ts
    ELSE IF HmsSeconds(ts) <= length THEN ts
    ELSE IF ComponentValue(ts, 1) * 60 + ComponentValue(ts, 2) <= length
         THEN HMS(T00, TwoDigits(ComponentValue(ts, 1)),
                  TwoDigits(ComponentValue(ts, 2)))
    ELSE HMS(TwoDigits(length \div 3600), TwoDigits((length % 3600) \div 60),
             TwoDigits(length % 60))

C7_RepairCorrectness ==
    tsPc = "returned" =>
        /\ tsOut = ReferenceRepair(tsIn, mediaLength)
        /\ mediaLength = 3600 =>
              /\ tsIn = HMS(T00, T45, T00) => tsOut = HMS(T00, T45, T00)
              /\ tsIn = HMS(T45, T30, T00) => tsOut = HMS(T00, T45, T30)
              /\ tsIn = HMS(T99, T99, T99) => tsOut = HMS(T01, T00, T00)
              /\ tsIn = HMS(TBad, TValue, TX) => tsOut = HMS(TBad, TValue, TX)

C7_Witness ==
    /\ tsPc = "returned"
    /\ mediaLength = 3600
    /\ tsIn = HMS(T45, T30, T00)
    /\ tsOut = HMS(T00, T45, T30)

(***************************************************************************)
(* C8  Sort/re-sequence idempotence: running the repair, sort and          *)
(* re-sequence steps again on the segment list of an assembled Media       *)
(* (equal or unparsable starts included) yields the identical list.        *)
(***************************************************************************)
C8_Idempotence ==
    media2 # << >> => media2[1].segments = MediaSegments

C8_Witness ==
    /\ media2 # << >>
    /\ Len(MediaSegments) = 3
    /\ \E i \in 1..2 : MediaSegments[i].start = MediaSegments[i + 1].start
    /\ \E i \in 1..3 : timeParse(MediaSegments[i].start) = ZeroTime
    /\ \E i \in 1..3 :
          ctxSegments.segs[i].seg.start # MediaSegments[i].start

(***************************************************************************)
(* C9  Join barrier: the result queue is closed, and the first result is   *)
(* read by the aggregation loop, only after the job queue was closed and   *)
(* every worker has terminated; no worker sends on the closed result       *)
(* queue; every result a worker produced is read by the aggregation loop   *)
(* exactly once.                                                           *)
(***************************************************************************)
C9_JoinBarrier ==
    /\ (resultsClosed \/ received # << >>) =>
          /\ jobsClosed
          /\ \A w \in Workers : wpc[w] = "done"
    /\ ~panicked
    /\ resultsClosed => received \o results = sent
    /\ ExtractorReturned => received = sent
    /\ \A i, j \in 1..Len(sent) : i # j => sent[i].job # sent[j].job

C9_Witness ==
    /\ mpc = "aggregate"
    /\ numberOfWorkers = 2
    /\ Len(sent) = 3
    /\ Len(received) = 1
    /\ \A w \in Workers : wpc[w] = "done"

(***************************************************************************)
(* C10  Batch parse failure is fatal and clean: when the payload list      *)
(* holds text that is not JSON, so that the bracket-wrapped, comma-joined  *)
(* document does not parse, MediaAssembly.Execute adds exactly one error   *)
(* to the context, increments its error counter once, leaves its success   *)
(* counter alone and leaves the media output key and the generic output    *)
(* key as they were: no Media is written.                                  *)
(***************************************************************************)
HoldsGarbage(payloads) ==
    \E i \in 1..Len(payloads) : payloads[i].kind = "garbage"

C10_BatchParseFailure ==
    [][ ( /\ mpc = "assemble"
          /\ mpc' = "done"
          /\ HoldsGarbage(ctxSegments.segs) ) =>
            /\ Len(ctxErrors') = Len(ctxErrors) + 1
            /\ ctxErrors'[Len(ctxErrors')].stage = AssemblyName
            /\ counters'.assemblyError = counters.assemblyError + 1
            /\ counters'.assemblySuccess = counters.assemblySuccess
            /\ ctxMedia' = ctxMedia
            /\ ctxMedia' = << >>
            /\ ctxOut' = ctxOut
            /\ ctxOut'.tag = "segments" ]_vars

C10_Witness ==
    /\ mpc = "done"
    /\ HoldsGarbage(ctxSegments.segs)
    /\ Len(ctxSegments.segs) >= 2
    /\ Len(ExtractorErrors) = 1
    /\ Len(AssemblyErrors) = 1
    /\ counters.assemblyError = 1

(***************************************************************************)
(* C11  Render-failure isolation: with at least one worker, once           *)
(* SegmentExtractor.Execute is past its barrier, a job whose prompt        *)
(* template failed to render has never reached the inference call and has  *)
(* put exactly one result on the result queue, a failure carrying the      *)
(* rendering error; every other job of the invocation was received and     *)
(* processed; and a worker is gone while the job queue is still open or    *)
(* non-empty only when it hit an inference error, never through a          *)
(* rendering failure.                                                      *)
(***************************************************************************)
ResultsOf(i) == { k \in 1..Len(sent) : sent[k].job = i }

DoneWorkers == { w \in Workers : wpc[w] = "done" }

C11_RenderFailureIsolation ==
    /\ (~jobsClosed \/ jobs # << >>) =>
          Cardinality(DoneWorkers) <=
              Cardinality({ i \in WindowsWith({"inferErr"}) : called[i] = 1 })
    /\ \A i \in WindowsWith({"renderErr"}) : called[i] = 0
    /\ (PastBarrier /\ numberOfWorkers >= 1) =>
          \A i \in WindowsWith({"renderErr"}) :
              /\ Cardinality(ResultsOf(i)) = 1
              /\ \A k \in ResultsOf(i) : sent[k].err = "render"
              /\ \A j \in Windows \ {i} : taken[j] = 1 /\ outcomes[j] = 1

(***************************************************************************)
(* C12  Span lifecycle: with at least one worker, when                     *)
(* SegmentExtractor.Execute has returned, the span of every one of the     *)
(* numWindows jobs has been ended, whatever the job's outcome; it was      *)
(* ended in the error state exactly when the job's inference call failed   *)
(* and in the ok state otherwise.                                          *)
(***************************************************************************)
C12_SpanLifecycle ==
    (ExtractorReturned /\ numberOfWorkers >= 1) =>
        \A i \in Windows :
            /\ span[i] \in {"ok", "error"}
            /\ span[i] = "error" <=> outcome[i] = "inferErr"

(***************************************************************************)
(* C13  Non-fatal aggregation: when SegmentExtractor.Execute has returned, *)
(* every result sent was read (a failure result does not stop the drain),  *)
(* every failure result has added one error to the context, the value      *)
(* under the output key is the list of the success payloads in the order   *)
(* they were sent, whether or not a job failed, and the success counter    *)
(* was incremented exactly when the context held no error after the drain. *)
(* Until MediaAssembly.Execute runs, the generic output key holds the same *)
(* list as the output key.                                                 *)
(***************************************************************************)
Failures(rs) == SelectSeq(rs, LAMBDA r : r.err # NoError)

RECURSIVE SuccessValues(_)
SuccessValues(rs) ==
    IF rs = << >> THEN << >>
    ELSE IF Head(rs).err = NoError
         THEN << Head(rs).value >> \o SuccessValues(Tail(rs))
         ELSE SuccessValues(Tail(rs))

C13_NonFatalAggregation ==
    /\ ExtractorReturned =>
          /\ received = sent
          /\ Len(ExtractorErrors) = Len(Failures(sent))
          /\ counters.extractorError = Len(Failures(sent))
          /\ ctxSegments = SegmentsValue(SuccessValues(sent))
          /\ counters.extractorSuccess =
                IF ExtractorErrors = << >> THEN 1 ELSE 0
    /\ mpc = "assemble" => ctxOut = ctxSegments

C13_Witness ==
    /\ mpc = "assemble"
    /\ Len(sent) = 3
    /\ sent[1].err # NoError
    /\ sent[2].err = NoError
    /\ sent[3].err # NoError
    /\ Len(ctxSegments.segs) = 1
    /\ Len(ExtractorErrors) = 2
    /\ counters.extractorSuccess = 0

(***************************************************************************)
(* C14  Stable tie-breaking: in every assembled Media, for every start     *)
(* value of the sort (a time of day, or the zero time of a start that does *)
(* not parse), the segments with that start value appear in the timeline   *)
(* in the same relative order as in the parsed, repaired input list.       *)
(***************************************************************************)
Content(seg) == << seg.start, seg.end, seg.script >>

TieClass(segments, t) ==
    LET class == SelectSeq(segments, LAMBDA seg : timeParse(seg.start) = t)
    IN  [i \in 1..Len(class) |-> Content(class[i])]

ParsedInput ==
    correctSegments(withDefault(jsonUnmarshal(ctxSegments.segs).segments,
                                mediaLength),
                    mediaLength)

C14_StableTieBreaking ==
    (mpc = "done" /\ ctxMedia # << >>) =>
        \A t \in { timeParse(seg.start) : seg \in Range(ParsedInput) } :
            TieClass(MediaSegments, t) = TieClass(ParsedInput, t)

(***************************************************************************)
(* C15  Completion-order independence: once MediaAssembly.Execute has run, *)
(* its outcome (the Media with its order of segments, sequence numbers,    *)
(* starts, ends and scripts, or no Media at all) is the one it would have  *)
(* produced had any two of the payloads arrived in each other's place,     *)
(* ties between start values included.  Every arrival order of the same    *)
(* payloads is reached by such exchanges, so the outcome is then the same  *)
(* for all of them.                                                        *)
(***************************************************************************)
OutcomeFor(arrival) ==
    LET parsed == jsonUnmarshal(arrival)
    IN  IF parsed.err THEN << >>
        ELSE << assemble(parsed.segments, mediaLength) >>

Exchanges(arrival) ==
    { [arrival EXCEPT ![i] = arrival[j], ![j] = arrival[i]] :
        i \in 1..Len(arrival), j \in 1..Len(arrival) }

DistinctStarts ==
    \A i, j \in 1..Len(ParsedInput) :
        i # j => timeParse(ParsedInput[i].start) # timeParse(ParsedInput[j].start)

ProducerHasRoom ==
    (mpc = "spawn" /\ nextJob <= numWindows) => Len(jobs) < jobsCapacity

WorkerHasRoom ==
    \A w \in Workers :
        (wpc[w] = "work" /\ (outcome[wjob[w]] \in {"renderErr", "inferErr"}
                               \/ keepsPayload(inferenceOutput(wjob[w])))) =>
            Len(results) < resultsCapacity /\ ~resultsClosed

ExecuteReturned ==
    /\ ExtractorReturned
    /\ \A w \in Workers : wpc[w] = "done"

RECURSIVE SumOf(_)
SumOf(f) == IF f = << >> THEN 0 ELSE Head(f) + SumOf(Tail(f))

PositionOf(pc) ==
    CASE pc = "spawn" -> 0
      [] pc = "wait" -> 1
      [] pc = "close" -> 2
      [] pc = "aggregate" -> 3
      [] pc = "assemble" -> 4
      [] OTHER -> 5

\* Grows with every step of the main goroutine and of every worker.
Progress ==
    PositionOf(mpc) + spawned + nextJob + SumOf(taken) + SumOf(outcomes)
        + Len(received) + Cardinality(DoneWorkers)

ProgressBound == 6 + 2 * numberOfWorkers + 4 * numWindows

C16_DeadlockFreedom ==
    /\ [](/\ ProducerHasRoom
          /\ WorkerHasRoom
          /\ ~panicked
          /\ ExecuteReturned \/ ENABLED Next
          /\ Progress <= ProgressBound)
    /\ [][Progress' > Progress]_vars

C16_Witness ==
    /\ ExecuteReturned
    /\ numberOfWorkers = 2
    /\ numWindows = 3
    /\ Len(sent) = 3
    /\ jobs = << >>

(***************************************************************************)
(* C17  Inference failures are bounded by the pool size: a worker whose    *)
(* inference call fails sends that one failure result and is gone without  *)
(* receiving another job, so the result queue never carries more           *)
(* inference failures than there are workers; once it carries as many,     *)
(* every worker is gone, no further result is ever produced, and the jobs  *)
(* still queued (or dispatched later) have produced no result when         *)
(* SegmentExtractor.Execute returns.                                       *)
(***************************************************************************)
InferenceFailures == Len(SelectSeq(sent, LAMBDA r : r.err = "infer"))

PoolExhausted == InferenceFailures = numberOfWorkers

C17_FailuresBoundedByPool ==
    /\ [](/\ InferenceFailures <= numberOfWorkers
          /\ InferenceFailures <= Cardinality(DoneWorkers)
          /\ PoolExhausted => DoneWorkers = Workers
          /\ (PoolExhausted /\ PastBarrier) =>
                \A i \in Range(jobs) :
                    ResultsOf(i) = {} /\ outcomes[i] = 0 /\ called[i] = 0)
    /\ [][ /\ PoolExhausted => (sent' = sent /\ called' = called)
           /\ \A w \in Workers :
                 ( /\ wpc[w] = "work"
                   /\ outcome[wjob[w]] = "inferErr"
                   /\ wpc'[w] # "work" ) =>
                     /\ wpc'[w] = "done"
                     /\ sent' = Append(sent, SegmentResponse(BlankPayload,
                                                             "infer", wjob[w]))
         ]_vars

C17_Witness ==
    /\ ExtractorReturned
    /\ numberOfWorkers = 2
    /\ numWindows = 3
    /\ InferenceFailures = 2
    /\ Len(jobs) = 1
    /\ outcome[Head(jobs)] = "object"
    /\ ctxSegments = SegmentsValue(<< >>)

(***************************************************************************)
(* C18  Repair is idempotent: for every string ts and media length L,      *)
(* correctTimestamp applied to correctTimestamp(ts, L) returns it          *)
(* unchanged: a value rewritten to 00:H:M, a value clamped to the          *)
(* formatted length and a value returned as it came (negative components   *)
(* and malformed strings included) all pass a second repair untouched.     *)
(***************************************************************************)
C18_RepairIdempotent ==
    tsPc = "repaired" => tsOut2 = tsOut

C18_Witness ==
    /\ tsPc = "repaired"
    /\ mediaLength = 3600
    /\ tsIn = HMS(T99, T99, T99)
    /\ tsOut = HMS(T01, T00, T00)
    /\ tsOut2 = HMS(T01, T00, T00)

====
